---- MODULE Spec2Model ----
(***************************************************************************)
(* A model of advanced-vector/vector.h: RawMemory<T> (an owner of one      *)
(* block of uninitialized storage) and Vector<T> (a RawMemory plus the     *)
(* count of constructed elements).                                         *)
(*                                                                         *)
(* The heap is a finite pool of blocks.  A block is a sequence of slots;   *)
(* a slot records whether a T object is alive in it (a constructor ran and *)
(* no destructor has run since) and the value its bytes hold.  Two Vector  *)
(* objects, "a" and "b", are operated on through the public interface.     *)
(* The element type T is fixed for a behaviour by its two capabilities     *)
(* (nothrow move construction, copy construction), which decide the        *)
(* `if constexpr` branches.  A call may be given a number K: the K-th      *)
(* invocation of a T constructor inside the call throws.                   *)
(*                                                                         *)
(* Slot offsets are 0-based as in the source; slots[i + 1] is offset i.    *)
(***************************************************************************)
EXTENDS Integers, Sequences, FiniteSets, TLC

\* ------------------------------------------------------------------ bounds
\* Largest capacity a call may request from the allocator.
MaxCap == 4
\* Largest number of elements a call may bring a vector to.
MaxSize == 3
\* Number of blocks in the heap pool.
NBlocks == 3

\* ------------------------------------------------------------------ values
Vecs == {"a", "b"}
Blocks == 1..NBlocks
\* nullptr
Null == 0
\* Values a caller passes in; 0 is also what T() yields.
Values == {0, 1}
DefaultValue == 0
\* What a moved-from T holds: the value of T().
MovedFrom == 0

\* An uninitialized slot.
Raw == [live |-> FALSE, val |-> 0]
FreeBlock == [alloc |-> FALSE, slots |-> << >>]
NoVector == [alive |-> FALSE, buffer |-> Null, capacity |-> 0, size |-> 0]

\* The element types, by std::is_nothrow_move_constructible_v<T> and
\* std::is_copy_constructible_v<T>.  Every T is taken to be default- and
\* move-constructible and move-assignable; its assignment operators and its
\* destructor do not throw.
ElementTypes == [nothrowMove : BOOLEAN, copyable : BOOLEAN]

VARIABLES
    heap,    \* block id -> [alloc, slots]
    vec,     \* vector name -> [alive, buffer, capacity, size] (data_, size_)
    traits,  \* the element type's capabilities
    last,    \* the call in progress or just completed, as its caller sees it
    pushed,  \* in the runs that only push: the values pushed so far, in order
    arenas   \* in the runs on RawMemory alone: the RawMemory objects

vars == <<heap, vec, traits, last, pushed, arenas>>

\* ---------------------------------------------------------------- helpers
Min(x, y) == IF x < y THEN x ELSE y
Max(x, y) == IF x > y THEN x ELSE y

RECURSIVE Replicate(_, _)
Replicate(x, n) == IF n = 0 THEN << >> ELSE <<x>> \o Replicate(x, n - 1)

\* The number of live slots of block b.
LiveCount(h, b) ==
    IF b = Null THEN 0
    ELSE Cardinality({i \in DOMAIN h[b].slots : h[b].slots[i].live})

\* Whether offset i of block b is a slot of an allocated block.
InBlock(h, b, i) == b # Null /\ h[b].alloc /\ i >= 0 /\ i < Len(h[b].slots)

\* Whether a T is alive at offset i of block b.
IsLive(h, b, i) == InBlock(h, b, i) /\ h[b].slots[i + 1].live

\* ------------------------------------------------- the execution of a call
\* A call runs on a record m: the heap and the vectors as the call changes
\* them, n the number of T constructor invocations so far, threw whether an
\* exception is in flight, trace the events so far, leak the number of live
\* elements in blocks at their release, ub the number of undefined steps
\* (a destructor or an assignment on a slot with no live T, a constructor
\* on a live slot, an access outside the block).
Start(h, vs) ==
    [heap |-> h, vec |-> vs, n |-> 0, threw |-> FALSE, trace |-> << >>,
     leak |-> 0, ub |-> 0]

Event(m, kind, b, i) == [m EXCEPT !.trace = Append(@, <<kind, b, i>>)]

\* The block a new RawMemory gets from operator new.
NewBlock(h) == CHOOSE b \in Blocks : ~h[b].alloc /\ \A c \in Blocks : c < b => h[c].alloc

HasFreeBlock(h) == \E b \in Blocks : ~h[b].alloc

\* RawMemory::Allocate(n) for n # 0, the block being b.
Allocate(m, b, n) ==
    Event([m EXCEPT !.heap[b] = [alloc |-> TRUE, slots |-> Replicate(Raw, n)]],
          "alloc", b, n)

\* RawMemory::Deallocate(buf): operator delete, no destructor is run.
Deallocate(m, b) ==
    IF b = Null THEN m
    ELSE Event([m EXCEPT !.heap[b] = FreeBlock,
                         !.leak = @ + LiveCount(m.heap, b)],
               "release", b, LiveCount(m.heap, b))

\* Whether a constructor of this kind can throw.
MayThrow(how) == ~(how = "move" /\ traits.nothrowMove)

\* A T constructor invocation at offset i of block b, yielding value x:
\* new (buf + i) T(...).  how is "copy", "move", "args" or "default".
ConstructAt(m, K, how, b, i, x) ==
    LET c == m.n + 1 IN
    IF K = c /\ MayThrow(how)
    THEN Event([m EXCEPT !.n = c, !.threw = TRUE], "throw", b, i)
    ELSE IF ~InBlock(m.heap, b, i)
    THEN Event([m EXCEPT !.n = c, !.ub = @ + 1], "wild", b, i)
    ELSE Event([m EXCEPT !.n = c,
                         !.ub = @ + (IF IsLive(m.heap, b, i) THEN 1 ELSE 0),
                         !.heap[b].slots[i + 1] = [live |-> TRUE, val |-> x]],
               how, b, i)

\* The value read from offset i of block b.
ValueAt(h, b, i) == IF InBlock(h, b, i) THEN h[b].slots[i + 1].val ELSE 0

\* T(const T&) / T(T&&) at dst + j from the element at src + i.
ConstructFrom(m, K, how, dst, j, src, i) ==
    LET m1 == ConstructAt(m, K, how, dst, j, ValueAt(m.heap, src, i))
        m2 == IF IsLive(m.heap, src, i) THEN m1 ELSE [m1 EXCEPT !.ub = @ + 1]
    IN IF how = "move" /\ ~m2.threw /\ InBlock(m2.heap, src, i)
       THEN [m2 EXCEPT !.heap[src].slots[i + 1].val = MovedFrom]
       ELSE m2

\* Vector::Destroy(buf + i): buf->~T().
Destroy(m, b, i) ==
    IF IsLive(m.heap, b, i)
    THEN Event([m EXCEPT !.heap[b].slots[i + 1] = Raw], "destroy", b, i)
    ELSE Event([m EXCEPT !.ub = @ + 1], "destroy_dead", b, i)

\* Vector::DestroyN(buf + off, n).
RECURSIVE DestroyN(_, _, _, _)
DestroyN(m, b, off, n) ==
    IF n = 0 THEN m ELSE DestroyN(Destroy(m, b, off), b, off + 1, n - 1)

\* *(dst + j) = x: T's assignment operator on the object at dst + j.
AssignAt(m, how, dst, j, x) ==
    IF ~InBlock(m.heap, dst, j) THEN Event([m EXCEPT !.ub = @ + 1], "wild", dst, j)
    ELSE Event([m EXCEPT !.heap[dst].slots[j + 1].val = x,
                         !.ub = @ + (IF IsLive(m.heap, dst, j) THEN 0 ELSE 1)],
               how, dst, j)

\* *(dst + j) = *(src + i) (how = "assign_copy") or = std::move(*(src + i)).
AssignFrom(m, how, dst, j, src, i) ==
    LET m1 == AssignAt(m, how, dst, j, ValueAt(m.heap, src, i))
        m2 == IF IsLive(m.heap, src, i) THEN m1 ELSE [m1 EXCEPT !.ub = @ + 1]
    IN IF how = "assign_move" /\ InBlock(m2.heap, src, i) /\ <<src, i>> # <<dst, j>>
       THEN [m2 EXCEPT !.heap[src].slots[i + 1].val = MovedFrom]
       ELSE m2

\* std::uninitialized_copy_n / std::uninitialized_move_n (src + so, n,
\* dst + do), k elements done: on a throw the elements it constructed are
\* destroyed and the exception goes on.
RECURSIVE UninitializedN(_, _, _, _, _, _, _, _, _)
UninitializedN(m, K, how, src, so, n, dst, do, k) ==
    IF k = n THEN m
    ELSE LET m1 == ConstructFrom(m, K, how, dst, do + k, src, so + k) IN
         IF m1.threw THEN DestroyN(m1, dst, do, k)
         ELSE UninitializedN(m1, K, how, src, so, n, dst, do, k + 1)

\* std::uninitialized_value_construct_n(dst + do, n), k elements done.
RECURSIVE UninitializedValueConstructN(_, _, _, _, _, _)
UninitializedValueConstructN(m, K, dst, do, n, k) ==
    IF k = n THEN m
    ELSE LET m1 == ConstructAt(m, K, "default", dst, do + k, DefaultValue) IN
         IF m1.threw THEN DestroyN(m1, dst, do, k)
         ELSE UninitializedValueConstructN(m1, K, dst, do, n, k + 1)

\* std::copy(src, src + n, dst): copy assignment, front to back.
RECURSIVE StdCopy(_, _, _, _, _)
StdCopy(m, src, n, dst, k) ==
    IF k = n THEN m
    ELSE StdCopy(AssignFrom(m, "assign_copy", dst, k, src, k), src, n, dst, k + 1)

\* std::move(b + first, b + lastx, b + d): move assignment, front to back.
RECURSIVE StdMove(_, _, _, _, _)
StdMove(m, b, first, lastx, d) ==
    IF first >= lastx THEN m
    ELSE StdMove(AssignFrom(m, "assign_move", b, d, b, first), b, first + 1, lastx, d + 1)

\* Mutant: the elements are not shifted.
StdMoveBackwardSkipped(m, b, first, lastx, dlast) == m

\* std::move_backward(b + first, b + lastx, b + dlast): move assignment,
\* back to front, the last element going to dlast - 1.
RECURSIVE StdMoveBackward(_, _, _, _, _)
StdMoveBackward(m, b, first, lastx, dlast) ==
    IF first >= lastx THEN m
    ELSE StdMoveBackward(AssignFrom(m, "assign_move", b, dlast - 1, b, lastx - 1),
                         b, first, lastx - 1, dlast - 1)

\* Mutant: the elements are always copied.
TransferHowAlwaysCopy == "copy"

\* Mutant: the elements are always moved.
TransferHowAlwaysMove == "move"

\* The constexpr choice of uninitialized_move_n over uninitialized_copy_n.
TransferHow == IF traits.nothrowMove \/ ~traits.copyable THEN "move" ELSE "copy"


\* --------------------------------------------------------- Vector's methods
\* Each method is a function from the execution record at its entry to the
\* record at its exit (by return or by exception, m.threw).

\* Mutant: the new storage is never swapped in.
DataSwapMissing(m, v, b, c) == m

\* RawMemory::Swap on v's data_ with a local RawMemory holding block b of
\* capacity c; the local's block afterwards is v's former one.
DataSwap(m, v, b, c) ==
    Event([m EXCEPT !.vec[v].buffer = b, !.vec[v].capacity = c], "swap", b, c)

SetSize(m, v, s) == Event([m EXCEPT !.vec[v].size = s], "size", m.vec[v].buffer, s)

\* Mutant: growth by one slot.
GrowCapacityByOne(d) == d.size + 1

\* The capacity a reallocating push or insert asks for.
GrowCapacity(d) == IF d.size = 0 THEN 1 ELSE d.size * 2

\* Vector(): both members default-initialized.
DefaultCtor(m, v) ==
    [m EXCEPT !.vec[v] = [alive |-> TRUE, buffer |-> Null, capacity |-> 0, size |-> 0]]

\* explicit Vector(size_t size).
SizedCtor(m, K, v, n) ==
    LET nb == IF n = 0 THEN Null ELSE NewBlock(m.heap)
        m1 == IF n = 0 THEN m ELSE Allocate(m, nb, n)
        m2 == UninitializedValueConstructN(m1, K, nb, 0, n, 0)
    IN IF m2.threw THEN Deallocate(m2, nb)
       ELSE [m2 EXCEPT !.vec[v] = [alive |-> TRUE, buffer |-> nb, capacity |-> n, size |-> n]]

\* Vector(const Vector& other).
CopyCtor(m, K, v, w) ==
    LET o == m.vec[w]
        nb == IF o.size = 0 THEN Null ELSE NewBlock(m.heap)
        m1 == IF o.size = 0 THEN m ELSE Allocate(m, nb, o.size)
        m2 == UninitializedN(m1, K, "copy", o.buffer, 0, o.size, nb, 0, 0)
    IN IF m2.threw THEN Deallocate(m2, nb)
       ELSE [m2 EXCEPT !.vec[v] = [alive |-> TRUE, buffer |-> nb,
                                   capacity |-> o.size, size |-> o.size]]

\* Mutant: size_ is not exchanged.
SwapDataOnly(m, v, w) ==
    LET d == m.vec[v]
        o == m.vec[w]
    IN Event([m EXCEPT !.vec = [[m.vec EXCEPT ![v] = [d EXCEPT !.buffer = o.buffer,
                                                             !.capacity = o.capacity]]
                                EXCEPT ![w] = [o EXCEPT !.buffer = d.buffer,
                                                        !.capacity = d.capacity]]],
             "swap", o.buffer, o.capacity)

\* Vector::Swap(other).
Swap(m, v, w) ==
    LET d == m.vec[v]
        o == m.vec[w]
    IN Event([m EXCEPT !.vec = [[m.vec EXCEPT ![v] = [d EXCEPT !.buffer = o.buffer,
                                                             !.capacity = o.capacity,
                                                             !.size = o.size]]
                                EXCEPT ![w] = [o EXCEPT !.buffer = d.buffer,
                                                        !.capacity = d.capacity,
                                                        !.size = d.size]]],
             "swap", o.buffer, o.capacity)

\* Vector(Vector&& other).
MoveCtor(m, v, w) == Swap(DefaultCtor(m, v), v, w)

\* Vector& operator=(Vector&& rhs).
MoveAssign(m, v, w) == Swap(m, v, w)

\* ~Vector(), then ~RawMemory() of data_.
Dtor(m, v) ==
    LET d == m.vec[v]
        m1 == DestroyN(m, d.buffer, 0, d.size)
        m2 == Deallocate(m1, d.buffer)
    IN [m2 EXCEPT !.vec[v] = NoVector]

\* Mutant: copy assignment always by copy and swap.
CopyAssignBySwap(m, K, v, w) ==
    LET d == m.vec[v]
        o == m.vec[w]
    IN IF v = w THEN m
       ELSE LET nb == IF o.size = 0 THEN Null ELSE NewBlock(m.heap)
                m1 == IF o.size = 0 THEN m ELSE Allocate(m, nb, o.size)
                m2 == UninitializedN(m1, K, "copy", o.buffer, 0, o.size, nb, 0, 0)
            IN IF m2.threw THEN Deallocate(m2, nb)
               ELSE LET m3 == DataSwap(m2, v, nb, o.size)
                        m4 == SetSize(m3, v, o.size)
                        m5 == DestroyN(m4, d.buffer, 0, d.size)
                    IN Deallocate(m5, d.buffer)

\* Vector& operator=(const Vector& rhs).
CopyAssign(m, K, v, w) ==
    LET d == m.vec[v]
        o == m.vec[w]
    IN IF v = w THEN m
       ELSE IF o.size > d.capacity
       THEN \* Vector rhs_copy(rhs); Swap(rhs_copy); ~rhs_copy
            LET nb == NewBlock(m.heap)
                m1 == Allocate(m, nb, o.size)
                m2 == UninitializedN(m1, K, "copy", o.buffer, 0, o.size, nb, 0, 0)
            IN IF m2.threw THEN Deallocate(m2, nb)
               ELSE LET m3 == DataSwap(m2, v, nb, o.size)
                        m4 == SetSize(m3, v, o.size)
                        m5 == DestroyN(m4, d.buffer, 0, d.size)
                    IN Deallocate(m5, d.buffer)
       ELSE IF d.size > o.size
       THEN LET m1 == DestroyN(m, d.buffer, 0, d.size - o.size)
                m2 == SetSize(m1, v, o.size)
            IN StdCopy(m2, o.buffer, o.size, d.buffer, 0)
       ELSE IF d.size < o.size
       THEN LET m1 == StdCopy(m, o.buffer, d.size, d.buffer, 0)
                m2 == UninitializedN(m1, K, "copy", o.buffer, d.size,
                                     o.size - d.size, d.buffer, d.size, 0)
            IN IF m2.threw THEN m2 ELSE SetSize(m2, v, o.size)
       ELSE SetSize(StdCopy(m, o.buffer, d.size, d.buffer, 0), v, o.size)

\* Mutant: the old block is released with its elements still alive.
ReserveWithoutDestroy(m, K, v, nc) ==
    LET d == m.vec[v] IN
    IF nc <= d.capacity THEN m
    ELSE LET nb == NewBlock(m.heap)
             m1 == Allocate(m, nb, nc)
             m2 == UninitializedN(m1, K, TransferHow, d.buffer, 0, d.size, nb, 0, 0)
         IN IF m2.threw THEN Deallocate(m2, nb)
            ELSE Deallocate(DataSwap(m2, v, nb, nc), d.buffer)

\* void Reserve(size_t new_capacity).
Reserve(m, K, v, nc) ==
    LET d == m.vec[v] IN
    IF nc <= d.capacity THEN m
    ELSE LET nb == NewBlock(m.heap)
             m1 == Allocate(m, nb, nc)
             m2 == UninitializedN(m1, K, TransferHow, d.buffer, 0, d.size, nb, 0, 0)
         IN IF m2.threw THEN Deallocate(m2, nb)
            ELSE LET m3 == DestroyN(m2, d.buffer, 0, d.size)
                     m4 == DataSwap(m3, v, nb, nc)
                 IN Deallocate(m4, d.buffer)

\* void PopBack() noexcept.
PopBack(m, v) ==
    LET d == m.vec[v] IN
    IF d.size > 0
    THEN SetSize(Destroy(m, d.buffer, d.size - 1), v, d.size - 1)
    ELSE m

\* Mutant: one element is popped, whatever n.
PopBackOnce(m, v, n) == PopBack(m, v)

RECURSIVE PopBackN(_, _, _)
PopBackN(m, v, n) == IF n = 0 THEN m ELSE PopBackN(PopBack(m, v), v, n - 1)

\* void Resize(size_t new_size).
Resize(m, K, v, ns) ==
    LET d == m.vec[v] IN
    IF ns = d.size THEN m
    ELSE IF ns < d.size THEN PopBackN(m, v, d.size - ns)
    ELSE LET m1 == Reserve(m, K, v, ns) IN
         IF m1.threw THEN m1
         ELSE LET m2 == UninitializedValueConstructN(m1, K, m1.vec[v].buffer,
                                                     d.size, ns - d.size, 0)
              IN IF m2.threw THEN m2 ELSE SetSize(m2, v, ns)

\* The argument of an insertion: a T of the caller's with value x, or a
\* reference to the element at offset i of the array itself (v[i]).
Own(x) == [self |-> FALSE, at |-> x]
Element(i) == [self |-> TRUE, at |-> i]

\* The value read through the argument in m, b being the block the array
\* had when the reference was taken.
ArgValue(m, b, arg) == IF arg.self THEN ValueAt(m.heap, b, arg.at) ELSE arg.at

\* Mutant: the blocks are swapped before the originals are destroyed.
PushBackSwapFirst(m, K, how, v, arg) ==
    LET d == m.vec[v] IN
    IF d.capacity > d.size
    THEN LET m1 == ConstructAt(m, K, how, d.buffer, d.size,
                               ArgValue(m, d.buffer, arg)) IN
         IF m1.threw THEN m1 ELSE SetSize(m1, v, d.size + 1)
    ELSE LET nc == GrowCapacity(d)
             nb == NewBlock(m.heap)
             m1 == Allocate(m, nb, nc)
             m2 == ConstructAt(m1, K, how, nb, d.size, ArgValue(m1, d.buffer, arg))
         IN IF m2.threw THEN Deallocate(m2, nb)
            ELSE LET m3 == UninitializedN(m2, K, TransferHow, d.buffer, 0, d.size,
                                          nb, 0, 0)
                 IN IF m3.threw THEN Deallocate(m3, nb)
                    ELSE LET m4 == DataSwap(m3, v, nb, nc)
                             m5 == DestroyN(m4, d.buffer, 0, d.size)
                             m6 == Deallocate(m5, d.buffer)
                         IN SetSize(m6, v, d.size + 1)

\* PushBack(const T&) (how = "copy"), PushBack(T&&) ("move") and
\* EmplaceBack(Args&&...) ("args"): the three bodies differ only in the
\* constructor that makes the new element.
PushBack(m, K, how, v, arg) ==
    LET d == m.vec[v] IN
    IF d.capacity > d.size
    THEN LET m1 == ConstructAt(m, K, how, d.buffer, d.size,
                               ArgValue(m, d.buffer, arg)) IN
         IF m1.threw THEN m1 ELSE SetSize(m1, v, d.size + 1)
    ELSE LET nc == GrowCapacity(d)
             nb == NewBlock(m.heap)
             m1 == Allocate(m, nb, nc)
             m2 == ConstructAt(m1, K, how, nb, d.size, ArgValue(m1, d.buffer, arg))
         IN IF m2.threw THEN Deallocate(m2, nb)
            ELSE LET m3 == UninitializedN(m2, K, TransferHow, d.buffer, 0, d.size,
                                          nb, 0, 0)
                 IN IF m3.threw THEN Deallocate(m3, nb)
                    ELSE LET m4 == DestroyN(m3, d.buffer, 0, d.size)
                             m5 == DataSwap(m4, v, nb, nc)
                             m6 == Deallocate(m5, d.buffer)
                         IN SetSize(m6, v, d.size + 1)

\* Mutant: no local T is made, the argument is read when it is assigned.
TemporaryIsTheArgument(m, b, arg) == arg

\* T value{args...}: the local T holds the value the argument has in m.
Temporary(m, b, arg) == Own(ArgValue(m, b, arg))

\* The constructor invocation of T value{args...}: a local T, in no slot.
ConstructLocal(m, K, how) ==
    LET c == m.n + 1 IN
    IF K = c /\ MayThrow(how)
    THEN Event([m EXCEPT !.n = c, !.threw = TRUE], "throw", Null, 0)
    ELSE Event([m EXCEPT !.n = c], how, Null, 0)

\* iterator Emplace(const_iterator pos, Args&&... args), pos = begin() + p;
\* Insert(pos, const T&) is Emplace with how = "copy", Insert(pos, T&&) with
\* how = "move".
Emplace(m, K, how, v, p, arg) ==
    LET d == m.vec[v] IN
    IF d.capacity > d.size
    THEN IF p = d.size
         THEN LET m1 == ConstructAt(m, K, how, d.buffer, d.size,
                                    ArgValue(m, d.buffer, arg)) IN
              IF m1.threw THEN m1 ELSE SetSize(m1, v, d.size + 1)
         ELSE LET m1 == ConstructLocal(m, K, how)
                  value == Temporary(m, d.buffer, arg)
              IN
              IF m1.threw THEN m1
              ELSE LET m2 == ConstructFrom(m1, K, "move", d.buffer, d.size,
                                           d.buffer, d.size - 1)
                   IN IF m2.threw THEN m2
                      ELSE LET m3 == StdMoveBackward(m2, d.buffer, p, d.size - 1, d.size)
                               m4 == AssignAt(m3, "assign_move", d.buffer, p,
                                              ArgValue(m3, d.buffer, value))
                           IN SetSize(m4, v, d.size + 1)
    ELSE LET nc == GrowCapacity(d)
             nb == NewBlock(m.heap)
             m1 == Allocate(m, nb, nc)
             m2 == ConstructAt(m1, K, how, nb, p, ArgValue(m1, d.buffer, arg))
         IN IF m2.threw THEN Deallocate(m2, nb)
            ELSE LET m3 == UninitializedN(m2, K, TransferHow, d.buffer, 0, p, nb, 0, 0) IN
                 IF m3.threw THEN Deallocate(Destroy(m3, nb, p), nb)
                 ELSE LET m4 == UninitializedN(m3, K, TransferHow, d.buffer, p,
                                               d.size - p, nb, p + 1, 0)
                      IN IF m4.threw
                         THEN Deallocate(DestroyN(m4, nb, p, d.size - p + 1), nb)
                         ELSE LET m5 == DestroyN(m4, d.buffer, 0, d.size)
                                  m6 == DataSwap(m5, v, nb, nc)
                                  m7 == Deallocate(m6, d.buffer)
                              IN SetSize(m7, v, d.size + 1)

\* Mutant: the elements after pos are not shifted.
EraseWithoutShift(m, v, p) ==
    LET d == m.vec[v] IN
    IF d.size > 0
    THEN Destroy(SetSize(m, v, d.size - 1), d.buffer, d.size - 1)
    ELSE m

\* iterator Erase(const_iterator pos), pos = begin() + p.
Erase(m, v, p) ==
    LET d == m.vec[v] IN
    IF d.size > 0
    THEN LET m1 == StdMove(m, d.buffer, p + 1, d.size, p)
             m2 == SetSize(m1, v, d.size - 1)
         IN Destroy(m2, d.buffer, d.size - 1)
    ELSE m


\* ------------------------------------------------------------------ calls
\* A call is one step: the whole method runs.  last then holds what the
\* caller of the method can tell about the call: the method and its
\* arguments, the state before it (pre), its events, and how it ended
\* ("ok": it returned, "threw": an exception left it, "abort": a step with
\* undefined behaviour ended the process).  The caller goes on from there
\* (Return), unless the process has ended.
EmptyHeap == [b \in Blocks |-> FreeBlock]
NoVectors == [v \in Vecs |-> NoVector]

Idle ==
    [op |-> "none", v |-> "a", w |-> "a", p |-> 0, x |-> 0, arg |-> Own(0), K |-> 0,
     how |-> "none", outcome |-> "none", trace |-> << >>, leak |-> 0, ub |-> 0,
     pre |-> [heap |-> EmptyHeap, vec |-> NoVectors]]

\* The record of the pushed values: kept only in the runs of SpecPush, and
\* there only as long as every push has returned.
NotRecording == [on |-> FALSE, values |-> << >>]

\* The RawMemory objects of the runs of SpecArena: none constructed yet.
\* obj holds buffer_ and capacity_ of each, twice counts the blocks handed
\* to operator delete a second time, and op, x, y, pre tell the last
\* operation, its operands and the objects before it.
ArenaNames == {"r", "s"}
NoArena == [alive |-> FALSE, buffer |-> Null, capacity |-> 0]
NoArenas ==
    [obj |-> [x \in ArenaNames |-> NoArena], twice |-> 0,
     op |-> "none", x |-> "r", y |-> "r", pre |-> [x \in ArenaNames |-> NoArena]]

\* The largest number of constructor invocations a call can make, plus one.
MaxK == MaxCap + 2

\* What a call that ran to m can end as: an undefined step may go unnoticed
\* or end the process.
Outcomes(m) ==
    {IF m.threw THEN "threw" ELSE "ok"} \cup (IF m.ub > 0 THEN {"abort"} ELSE {})

CallWith(op, how, v, w, p, x, arg, K, m) ==
    /\ K = 0 \/ m.threw
    /\ heap' = m.heap
    /\ vec' = m.vec
    /\ traits' = traits
    /\ pushed' = IF pushed.on /\ op = "PushBack"
                 THEN IF m.threw THEN NotRecording
                      ELSE [pushed EXCEPT !.values = Append(@, x)]
                 ELSE pushed
    /\ arenas' = arenas
    /\ \E o \in Outcomes(m) :
          last' = [op |-> op, v |-> v, w |-> w, p |-> p, x |-> x, arg |-> arg, K |-> K,
                   how |-> how, outcome |-> o, trace |-> m.trace,
                   leak |-> m.leak, ub |-> m.ub,
                   pre |-> [heap |-> heap, vec |-> vec]]

\* A call whose argument, if it has one, is a T of the caller's.
Call(op, how, v, w, p, x, K, m) == CallWith(op, how, v, w, p, x, Own(x), K, m)

Ready == last.op = "none"
Entry == Start(heap, vec)
Ks == 0..MaxK

\* Whether an insertion into d stays within the bounds.
CanGrow(d) ==
    /\ d.size < MaxSize
    /\ d.capacity > d.size \/ GrowCapacity(d) <= MaxCap

CallDefaultCtor(v) ==
    /\ Ready /\ ~vec[v].alive
    /\ Call("Vector", "none", v, v, 0, 0, 0, DefaultCtor(Entry, v))

CallSizedCtor(v, n) ==
    /\ Ready /\ ~vec[v].alive
    /\ \E K \in Ks : Call("VectorN", "default", v, v, n, 0, K, SizedCtor(Entry, K, v, n))

CallCopyCtor(v, w) ==
    /\ Ready /\ ~vec[v].alive /\ vec[w].alive /\ traits.copyable
    /\ \E K \in Ks : Call("VectorCopy", "copy", v, w, 0, 0, K, CopyCtor(Entry, K, v, w))

CallMoveCtor(v, w) ==
    /\ Ready /\ ~vec[v].alive /\ vec[w].alive
    /\ Call("VectorMove", "none", v, w, 0, 0, 0, MoveCtor(Entry, v, w))

CallDtor(v) ==
    /\ Ready /\ vec[v].alive
    /\ Call("~Vector", "none", v, v, 0, 0, 0, Dtor(Entry, v))

CallCopyAssign(v, w) ==
    /\ Ready /\ vec[v].alive /\ vec[w].alive /\ traits.copyable
    /\ \E K \in Ks : Call("CopyAssign", "copy", v, w, 0, 0, K, CopyAssign(Entry, K, v, w))

CallMoveAssign(v, w) ==
    /\ Ready /\ vec[v].alive /\ vec[w].alive
    /\ Call("MoveAssign", "none", v, w, 0, 0, 0, MoveAssign(Entry, v, w))

CallSwap(v, w) ==
    /\ Ready /\ vec[v].alive /\ vec[w].alive
    /\ Call("Swap", "none", v, w, 0, 0, 0, Swap(Entry, v, w))

CallReserve(v, n) ==
    /\ Ready /\ vec[v].alive
    /\ \E K \in Ks : Call("Reserve", TransferHow, v, v, n, 0, K, Reserve(Entry, K, v, n))

CallResize(v, n) ==
    /\ Ready /\ vec[v].alive
    /\ \E K \in Ks : Call("Resize", "default", v, v, n, 0, K, Resize(Entry, K, v, n))

\* PushBack(const T&)
CallPushBack(v, x) ==
    /\ Ready /\ vec[v].alive /\ traits.copyable /\ CanGrow(vec[v])
    /\ \E K \in Ks : Call("PushBack", "copy", v, v, vec[v].size, x, K,
                          PushBack(Entry, K, "copy", v, Own(x)))

\* PushBack(T&&)
CallPushBackMove(v, x) ==
    /\ Ready /\ vec[v].alive /\ CanGrow(vec[v])
    /\ \E K \in Ks : Call("PushBack", "move", v, v, vec[v].size, x, K,
                          PushBack(Entry, K, "move", v, Own(x)))

CallEmplaceBack(v, x) ==
    /\ Ready /\ vec[v].alive /\ CanGrow(vec[v])
    /\ \E K \in Ks : Call("EmplaceBack", "args", v, v, vec[v].size, x, K,
                          PushBack(Entry, K, "args", v, Own(x)))

\* Insert(pos, const T&)
CallInsert(v, p, x) ==
    /\ Ready /\ vec[v].alive /\ traits.copyable /\ CanGrow(vec[v]) /\ p <= vec[v].size
    /\ \E K \in Ks : Call("Insert", "copy", v, v, p, x, K,
                          Emplace(Entry, K, "copy", v, p, Own(x)))

\* Insert(pos, T&&)
CallInsertMove(v, p, x) ==
    /\ Ready /\ vec[v].alive /\ CanGrow(vec[v]) /\ p <= vec[v].size
    /\ \E K \in Ks : Call("Insert", "move", v, v, p, x, K,
                          Emplace(Entry, K, "move", v, p, Own(x)))

CallEmplace(v, p, x) ==
    /\ Ready /\ vec[v].alive /\ CanGrow(vec[v]) /\ p <= vec[v].size
    /\ \E K \in Ks : Call("Emplace", "args", v, v, p, x, K,
                          Emplace(Entry, K, "args", v, p, Own(x)))

\* v.PushBack(v[i]): the argument is a reference to an element of v.
CallPushBackSelf(v, i) ==
    /\ Ready /\ vec[v].alive /\ traits.copyable /\ CanGrow(vec[v]) /\ i < vec[v].size
    /\ \E K \in Ks : CallWith("PushBack", "copy", v, v, vec[v].size,
                              ValueAt(heap, vec[v].buffer, i), Element(i), K,
                              PushBack(Entry, K, "copy", v, Element(i)))

\* v.Insert(v.begin() + p, v[i])
CallInsertSelf(v, p, i) ==
    /\ Ready /\ vec[v].alive /\ traits.copyable /\ CanGrow(vec[v])
    /\ p <= vec[v].size /\ i < vec[v].size
    /\ \E K \in Ks : CallWith("Insert", "copy", v, v, p,
                              ValueAt(heap, vec[v].buffer, i), Element(i), K,
                              Emplace(Entry, K, "copy", v, p, Element(i)))

\* v.Emplace(v.begin() + p, v[i])
CallEmplaceSelf(v, p, i) ==
    /\ Ready /\ vec[v].alive /\ traits.copyable /\ CanGrow(vec[v])
    /\ p <= vec[v].size /\ i < vec[v].size
    /\ \E K \in Ks : CallWith("Emplace", "args", v, v, p,
                              ValueAt(heap, vec[v].buffer, i), Element(i), K,
                              Emplace(Entry, K, "args", v, p, Element(i)))

\* Erase(pos) with pos a valid iterator to an element, or begin() of an
\* empty vector.
CallErase(v, p) ==
    /\ Ready /\ vec[v].alive /\ (p < vec[v].size \/ (p = 0 /\ vec[v].size = 0))
    /\ Call("Erase", "none", v, v, p, 0, 0, Erase(Entry, v, p))

CallPopBack(v) ==
    /\ Ready /\ vec[v].alive
    /\ Call("PopBack", "none", v, v, 0, 0, 0, PopBack(Entry, v))

\* Block addresses carry no meaning of their own: the blocks are renamed so
\* that the vectors' blocks come first, in the order of the vectors.
BlockOrder(h, vs) ==
    LET ba == vs["a"].buffer
        bb == vs["b"].buffer
        owned == (IF ba # Null THEN <<ba>> ELSE << >>)
                 \o (IF bb # Null /\ bb # ba THEN <<bb>> ELSE << >>)
        IsOther(b) == b # ba /\ b # bb /\ h[b].alloc
    IN owned \o SelectSeq([i \in 1..NBlocks |-> i], IsOther)

Renamed(ord, b) ==
    IF b = Null THEN Null ELSE CHOOSE i \in 1..Len(ord) : ord[i] = b

CanonicalHeap(h, vs) ==
    LET ord == BlockOrder(h, vs) IN
    [b \in Blocks |-> IF b <= Len(ord) THEN h[ord[b]] ELSE FreeBlock]

CanonicalVectors(h, vs) ==
    LET ord == BlockOrder(h, vs) IN
    [v \in Vecs |-> [vs[v] EXCEPT !.buffer = Renamed(ord, @)]]

\* The caller has seen the call's outcome and goes on.  A process that has
\* made an undefined step is followed no further.
Return ==
    /\ last.op # "none" /\ last.ub = 0
    /\ last' = Idle
    /\ heap' = CanonicalHeap(heap, vec)
    /\ vec' = CanonicalVectors(heap, vec)
    /\ traits' = traits
    /\ pushed' = pushed
    /\ arenas' = arenas

Init ==
    /\ heap = EmptyHeap
    /\ vec = NoVectors
    /\ traits \in ElementTypes
    /\ last = Idle
    /\ pushed = NotRecording
    /\ arenas = NoArenas

Sizes == 0..MaxSize
Capacities == 0..MaxCap
Offsets == 0..MaxSize

Next ==
    \/ \E v \in Vecs : CallDefaultCtor(v)
    \/ \E v \in Vecs, n \in Sizes : CallSizedCtor(v, n)
    \/ \E v \in Vecs, w \in Vecs : CallCopyCtor(v, w)
    \/ \E v \in Vecs, w \in Vecs : CallMoveCtor(v, w)
    \/ \E v \in Vecs : CallDtor(v)
    \/ \E v \in Vecs, w \in Vecs : CallCopyAssign(v, w)
    \/ \E v \in Vecs, w \in Vecs : CallMoveAssign(v, w)
    \/ \E v \in Vecs, w \in Vecs : CallSwap(v, w)
    \/ \E v \in Vecs, n \in Capacities : CallReserve(v, n)
    \/ \E v \in Vecs, n \in Sizes : CallResize(v, n)
    \/ \E v \in Vecs, x \in Values : CallPushBack(v, x)
    \/ \E v \in Vecs, x \in Values : CallPushBackMove(v, x)
    \/ \E v \in Vecs, x \in Values : CallEmplaceBack(v, x)
    \/ \E v \in Vecs, p \in Offsets, x \in Values : CallInsert(v, p, x)
    \/ \E v \in Vecs, p \in Offsets, x \in Values : CallInsertMove(v, p, x)
    \/ \E v \in Vecs, p \in Offsets, x \in Values : CallEmplace(v, p, x)
    \/ \E v \in Vecs, p \in Offsets : CallErase(v, p)
    \/ \E v \in Vecs : CallPopBack(v)
    \/ Return

Spec == Init /\ [][Next]_vars

\* The runs that default-construct one array and then only push to it:
\*     Vector<T> a;  a.PushBack(x1);  a.PushBack(std::move(x2));  ...
InitPush ==
    /\ heap = EmptyHeap
    /\ vec = DefaultCtor(Start(EmptyHeap, NoVectors), "a").vec
    /\ traits \in ElementTypes
    /\ last = Idle
    /\ pushed = [on |-> TRUE, values |-> << >>]
    /\ arenas = NoArenas

NextPush ==
    \/ \E x \in Values : CallPushBack("a", x)
    \/ \E x \in Values : CallPushBackMove("a", x)
    \/ Return

SpecPush == InitPush /\ [][NextPush]_vars

\* The runs on one array of a copyable T in which an insertion may be given
\* a reference to an element of the array itself.
InitAlias ==
    /\ heap = EmptyHeap
    /\ vec = DefaultCtor(Start(EmptyHeap, NoVectors), "a").vec
    /\ traits \in {t \in ElementTypes : t.copyable}
    /\ last = Idle
    /\ pushed = NotRecording
    /\ arenas = NoArenas

NextAlias ==
    \/ \E x \in Values : CallPushBack("a", x)
    \/ \E p \in Offsets, x \in Values : CallInsert("a", p, x)
    \/ \E n \in Capacities : CallReserve("a", n)
    \/ CallPopBack("a")
    \/ \E i \in Offsets : CallPushBackSelf("a", i)
    \/ \E p \in Offsets, i \in Offsets : CallInsertSelf("a", p, i)
    \/ \E p \in Offsets, i \in Offsets : CallEmplaceSelf("a", p, i)
    \/ Return

SpecAlias == InitAlias /\ [][NextAlias]_vars

\* ------------------------------------------------------ RawMemory on its own
\* The runs of a program that uses RawMemory<T> objects directly.  Each
\* operation is a function on st = [heap, obj, twice].

\* static void Deallocate(T* buf): operator delete.
RawDeallocate(st, b) ==
    IF b = Null THEN st
    ELSE IF st.heap[b].alloc THEN [st EXCEPT !.heap[b] = FreeBlock]
    ELSE [st EXCEPT !.twice = @ + 1]

\* explicit RawMemory(size_t capacity); RawMemory() = default is n = 0.
RawMemoryCtor(st, x, n) ==
    IF n # 0
    THEN LET b == NewBlock(st.heap) IN
         [st EXCEPT !.heap[b] = [alloc |-> TRUE, slots |-> Replicate(Raw, n)],
                    !.obj[x] = [alive |-> TRUE, buffer |-> b, capacity |-> n]]
    ELSE [st EXCEPT !.obj[x] = [alive |-> TRUE, buffer |-> Null, capacity |-> 0]]

\* The four assignments both move operations are made of, in their order:
\* buffer_ = other.buffer_; other.buffer_ = nullptr;
\* capacity_ = other.capacity_; other.capacity_ = 0.
TakeFrom(st, x, y) ==
    LET s1 == [st EXCEPT !.obj[x].buffer = st.obj[y].buffer]
        s2 == [s1 EXCEPT !.obj[y].buffer = Null]
        s3 == [s2 EXCEPT !.obj[x].capacity = s2.obj[y].capacity]
    IN [s3 EXCEPT !.obj[y].capacity = 0]

\* RawMemory(RawMemory&& other) noexcept: x is constructed from y.
RawMemoryMoveCtor(st, x, y) ==
    TakeFrom([st EXCEPT !.obj[x] = [alive |-> TRUE, buffer |-> Null, capacity |-> 0]],
             x, y)

\* RawMemory& operator=(RawMemory&& rhs) noexcept: x = std::move(y).
RawMemoryMoveAssign(st, x, y) == TakeFrom(st, x, y)

\* void Swap(RawMemory& other) noexcept.
RawMemorySwap(st, x, y) ==
    [st EXCEPT !.obj[x].buffer = st.obj[y].buffer,
               !.obj[y].buffer = st.obj[x].buffer,
               !.obj[x].capacity = st.obj[y].capacity,
               !.obj[y].capacity = st.obj[x].capacity]

\* ~RawMemory().
RawMemoryDtor(st, x) ==
    [RawDeallocate(st, st.obj[x].buffer) EXCEPT !.obj[x] = NoArena]

ArenaEntry == [heap |-> heap, obj |-> arenas.obj, twice |-> arenas.twice]

ArenaCall(op, x, y, st) ==
    /\ heap' = st.heap
    /\ arenas' = [obj |-> st.obj, twice |-> st.twice, op |-> op, x |-> x, y |-> y,
                  pre |-> arenas.obj]
    /\ UNCHANGED <<vec, traits, last, pushed>>

CallRawMemoryCtor(x, n) ==
    /\ ~arenas.obj[x].alive
    /\ n = 0 \/ HasFreeBlock(heap)
    /\ ArenaCall("RawMemory", x, x, RawMemoryCtor(ArenaEntry, x, n))

CallRawMemoryMoveCtor(x, y) ==
    /\ ~arenas.obj[x].alive /\ arenas.obj[y].alive
    /\ ArenaCall("RawMemoryMove", x, y, RawMemoryMoveCtor(ArenaEntry, x, y))

\* x = std::move(y), y being x itself or the other object.
CallRawMemoryMoveAssign(x, y) ==
    /\ arenas.obj[x].alive /\ arenas.obj[y].alive
    /\ ArenaCall("MoveAssign", x, y, RawMemoryMoveAssign(ArenaEntry, x, y))

CallRawMemorySwap(x, y) ==
    /\ arenas.obj[x].alive /\ arenas.obj[y].alive
    /\ ArenaCall("Swap", x, y, RawMemorySwap(ArenaEntry, x, y))

CallRawMemoryDtor(x) ==
    /\ arenas.obj[x].alive
    /\ ArenaCall("~RawMemory", x, x, RawMemoryDtor(ArenaEntry, x))

InitArena ==
    /\ heap = EmptyHeap
    /\ vec = NoVectors
    /\ traits = [nothrowMove |-> TRUE, copyable |-> TRUE]
    /\ last = Idle
    /\ pushed = NotRecording
    /\ arenas = NoArenas

NextArena ==
    \/ \E x \in ArenaNames, n \in Capacities : CallRawMemoryCtor(x, n)
    \/ \E x \in ArenaNames, y \in ArenaNames : CallRawMemoryMoveCtor(x, y)
    \/ \E x \in ArenaNames, y \in ArenaNames : CallRawMemoryMoveAssign(x, y)
    \/ \E x \in ArenaNames, y \in ArenaNames : CallRawMemorySwap(x, y)
    \/ \E x \in ArenaNames : CallRawMemoryDtor(x)

SpecArena == InitArena /\ [][NextArena]_vars


\* ------------------------------------------------------ what a caller sees
\* The elements of a vector d over heap h: the slots [0, size), each with
\* its value and whether a T is alive in it.
Elements(h, d) ==
    IF d.size = 0 \/ d.buffer = Null THEN << >>
    ELSE SubSeq(h[d.buffer].slots, 1, Min(d.size, Len(h[d.buffer].slots)))

ElementsNow(v) == Elements(heap, vec[v])
ElementsBefore(v) == Elements(last.pre.heap, last.pre.vec[v])
Before(v) == last.pre.vec[v]

\* The values of a sequence of slots.
ValuesOf(e) == [i \in DOMAIN e |-> e[i].val]
AllLive(e) == \A i \in DOMAIN e : e[i].live

\* e with x put in before offset p / with the element at offset p taken out.
InsertedAt(e, p, x) == SubSeq(e, 1, p) \o <<x>> \o SubSeq(e, p + 1, Len(e))
RemovedAt(e, p) == SubSeq(e, 1, p) \o SubSeq(e, p + 2, Len(e))

InsertionOps == {"PushBack", "EmplaceBack", "Insert", "Emplace"}

\* The last call was an insertion that found the capacity exhausted.
Reallocating ==
    /\ last.op \in InsertionOps
    /\ ~(Before(last.v).capacity > Before(last.v).size)

\* The block the last call allocated first.
NewArena == last.trace[1][2]

\* How many events of the kinds happened at offset i of block b in the last call.
Count(kinds, b, i) ==
    Cardinality({k \in DOMAIN last.trace :
                    /\ last.trace[k][1] \in kinds
                    /\ last.trace[k][2] = b
                    /\ last.trace[k][3] = i})

Constructions == {"copy", "move", "args", "default"}
Destructions == {"destroy", "destroy_dead"}

\* v is as it was before the last call: same block, capacity and size, and
\* the same live elements in it.
Untouched(v) ==
    /\ vec[v] = Before(v)
    /\ ElementsNow(v) = ElementsBefore(v)
    /\ AllLive(ElementsNow(v))

\* ------------------------------------------------------------------ claims

\* C1 (as stated): if a constructor throws on its K-th invocation during a
\* reallocating push_back, emplace_back, insert or emplace, the array's
\* size, capacity and element values are those before the call and every
\* original element is still live in the original storage.
C1_StrongSafety ==
    (Reallocating /\ last.outcome = "threw") => Untouched(last.v)

\* C1 (amended): the same, for an element type that is copy-constructible or
\* whose move constructor is non-throwing; for every element type the block,
\* the capacity, the size and the liveness of the elements are unchanged.
C1_StrongSafetyUnlessThrowingMoveOnly ==
    (Reallocating /\ last.outcome = "threw") =>
        /\ vec[last.v] = Before(last.v)
        /\ AllLive(ElementsNow(last.v))
        /\ (traits.copyable \/ traits.nothrowMove) => Untouched(last.v)

\* C1 witness: a reallocating push_back onto two elements failed while the
\* second of them was being copied into the new storage.
C1_Witness ==
    /\ last.op = "PushBack" /\ Reallocating
    /\ last.outcome = "threw" /\ last.K = 3
    /\ traits.copyable /\ ~traits.nothrowMove
    /\ Before(last.v).size = 2
    /\ ValuesOf(ElementsBefore(last.v)) = <<1, 0>>

\* C2: in the reallocating path of insert/emplace, when the transfer of the
\* prefix or of the suffix fails, exactly the constructed slots of the new
\* Arena are destroyed, each once: no slot is destroyed that holds no
\* element, and no element is alive in the new Arena when it is released.
C2_RollbackExact ==
    (last.op \in {"Insert", "Emplace"} /\ Reallocating /\ last.K >= 2) =>
        /\ \A i \in 0..MaxCap :
              /\ Count(Destructions, NewArena, i) = Count(Constructions, NewArena, i)
              /\ Count({"destroy_dead"}, NewArena, i) = 0
        /\ last.leak = 0

\* C3: copy assignment a = b with b.size <= a.capacity and a.size > b.size
\* destroys exactly the slots [b.size, a.size) of a, each once, assigns b's
\* elements onto live slots, and ends with a.size = b.size, a's elements
\* equal to b's, and no live element at an offset >= a.size.
C3_CopyAssignShrink ==
    LET a == Before(last.v)
        b == Before(last.w)
    IN (last.op = "CopyAssign" /\ last.v # last.w
        /\ b.size <= a.capacity /\ a.size > b.size) =>
           /\ \A i \in 0..MaxCap :
                 Count(Destructions, a.buffer, i)
                    = (IF i >= b.size /\ i < a.size THEN 1 ELSE 0)
           /\ last.ub = 0
           /\ vec[last.v].size = b.size
           /\ ElementsNow(last.v) = ElementsBefore(last.w)
           /\ \A i \in 0..MaxCap :
                 i >= vec[last.v].size => ~IsLive(heap, vec[last.v].buffer, i)

\* C4: every array has size <= capacity, a live element in every slot of
\* [0, size) and none in [size, capacity), after every call.
C4_Invariant ==
    \A v \in Vecs :
        vec[v].alive =>
            /\ vec[v].size <= vec[v].capacity
            /\ \A i \in 0..MaxCap :
                  i < vec[v].capacity =>
                      (IsLive(heap, vec[v].buffer, i) <=> i < vec[v].size)

\* C5 (as stated): a move construction or move assignment leaves the source
\* with size 0 and capacity 0, and the destination with the source's prior
\* size and elements.
C5_MoveEmptiesSource ==
    last.op \in {"VectorMove", "MoveAssign"} =>
        /\ vec[last.w].size = 0 /\ vec[last.w].capacity = 0
        /\ vec[last.v].size = Before(last.w).size
        /\ ElementsNow(last.v) = ElementsBefore(last.w)

\* C5 (amended): the destination holds the source's prior size, capacity
\* and elements; after a move construction the source has size 0 and
\* capacity 0; after a move assignment the source holds the destination's
\* prior size, capacity and elements.
C5_MoveExchanges ==
    last.op \in {"VectorMove", "MoveAssign"} =>
        /\ vec[last.v].size = Before(last.w).size
        /\ vec[last.v].capacity = Before(last.w).capacity
        /\ ElementsNow(last.v) = ElementsBefore(last.w)
        /\ AllLive(ElementsNow(last.v))
        /\ last.op = "VectorMove" =>
              vec[last.w].size = 0 /\ vec[last.w].capacity = 0
        /\ last.op = "MoveAssign" =>
              /\ vec[last.w].size = Before(last.v).size
              /\ vec[last.w].capacity = Before(last.v).capacity
              /\ ElementsNow(last.w) = ElementsBefore(last.v)

\* C5 witness: a move assignment between two different non-empty vectors.
C5_Witness ==
    /\ last.op = "MoveAssign" /\ last.v # last.w
    /\ Before(last.v).size > 0 /\ Before(last.w).size > 0
    /\ ValuesOf(ElementsBefore(last.v)) # ValuesOf(ElementsBefore(last.w))

ListedOps ==
    {"Reserve", "Resize", "PushBack", "EmplaceBack", "Insert", "Emplace", "Erase",
     "PopBack", "CopyAssign", "MoveAssign", "Swap"}

\* C6 (as stated): no operation among reserve, resize, push_back,
\* emplace_back, insert, emplace, erase, pop_back, copy assignment, move
\* assignment and swap lowers the capacity of an array.
C6_CapacityNeverDecreases ==
    last.op \in ListedOps =>
        \A v \in Vecs : vec[v].capacity >= Before(v).capacity

\* C6 (amended): the same without move assignment and swap, which exchange
\* the capacities of the two arrays.
C6_CapacityNeverDecreasesButBySwap ==
    /\ last.op \in ListedOps \ {"MoveAssign", "Swap"} =>
          \A v \in Vecs : vec[v].capacity >= Before(v).capacity
    /\ last.op \in {"MoveAssign", "Swap"} =>
          /\ vec[last.v].capacity = Before(last.w).capacity
          /\ vec[last.w].capacity = Before(last.v).capacity

\* C6 witness: a copy assignment from an empty vector emptied a vector of
\* two elements and kept its capacity.
C6_Witness ==
    /\ last.op = "CopyAssign" /\ last.outcome = "ok" /\ last.ub = 0
    /\ Before(last.w).size = 0 /\ Before(last.v).size = 2
    /\ vec[last.v].size = 0
    /\ vec[last.v].capacity = Before(last.v).capacity

\* C7: when the transfer of the existing elements fails during a
\* reallocating push_back or emplace_back, the new storage is released
\* holding no live element.
C7_PushBackRollback ==
    (last.op \in {"PushBack", "EmplaceBack"} /\ Reallocating /\ last.K >= 2) =>
        last.leak = 0


\* C8: after copy construction c = Vector(a), c has a's size and elements
\* and capacity a.size; after copy assignment c = a, in every branch, c has
\* a's size and elements; the two share no block, and a call on one of
\* them leaves the other's size, capacity and elements unchanged.
C8_DeepCopy ==
    /\ (last.op = "VectorCopy" /\ last.outcome = "ok") =>
          /\ vec[last.v].size = Before(last.w).size
          /\ vec[last.v].capacity = Before(last.w).size
          /\ ElementsNow(last.v) = ElementsBefore(last.w)
    /\ (last.op = "CopyAssign" /\ last.outcome = "ok") =>
          /\ vec[last.v].size = Before(last.w).size
          /\ ElementsNow(last.v) = ElementsBefore(last.w)
    /\ \A v \in Vecs, w \in Vecs :
          (v # w /\ vec[v].alive /\ vec[w].alive /\ vec[v].buffer # Null) =>
              vec[v].buffer # vec[w].buffer
    /\ last.op \notin {"none", "Swap", "MoveAssign", "VectorMove"} =>
          \A w \in Vecs \ {last.v} :
              vec[w] = Before(w) /\ ElementsNow(w) = ElementsBefore(w)

\* C9: insert(p, v) followed by erase(p) yields the size and the elements
\* there were before the insert, with or without spare capacity.
C9_InsertEraseRoundTrip ==
    (last.op \in {"Insert", "Emplace"} /\ last.outcome = "ok") =>
        LET m == Erase(Start(heap, vec), last.v, last.p) IN
        /\ m.vec[last.v].size = Before(last.v).size
        /\ Elements(m.heap, m.vec[last.v]) = ElementsBefore(last.v)
        /\ m.ub = 0

\* C9 witness: an insert before the last of two different elements, made
\* without reallocation.
C9_Witness ==
    /\ last.op = "Insert" /\ last.outcome = "ok" /\ ~Reallocating
    /\ Before(last.v).size = 2 /\ last.p = 1
    /\ ValuesOf(ElementsBefore(last.v)) = <<0, 1>> /\ last.x = 1

\* C10: a push_back, emplace_back, insert or emplace that returns leaves
\* the capacity at max(1, 2 * old capacity) when the capacity was exhausted
\* and unchanged when there was spare capacity.
C10_GrowthPolicy ==
    (last.op \in InsertionOps /\ last.outcome = "ok") =>
        vec[last.v].capacity =
            (IF Before(last.v).size = Before(last.v).capacity
             THEN Max(1, 2 * Before(last.v).capacity)
             ELSE Before(last.v).capacity)

\* C10 witness: a third push_back, from capacity 2 to capacity 4.
C10_Witness ==
    /\ last.op = "PushBack" /\ last.outcome = "ok"
    /\ Before(last.v).capacity = 2 /\ vec[last.v].capacity = 4
    /\ vec[last.v].size = 3

\* C11: after N push_back calls on an initially empty array, size() is N
\* and element i is the i-th pushed value, for every N the bounds admit and
\* so across every reallocation (0 -> 1 -> 2 -> 4).  Stated on the runs of
\* SpecPush, for as long as every one of the calls has returned.
C11_PushBackSequence ==
    pushed.on =>
    /\ vec["a"].size = Len(pushed.values)
    /\ ValuesOf(ElementsNow("a")) = pushed.values
    /\ AllLive(ElementsNow("a"))
    /\ Len(ElementsNow("a")) = vec["a"].size

\* C11 witness: three values pushed, the third one through the reallocation
\* from capacity 2 to 4.
C11_Witness ==
    /\ pushed.values = <<1, 0, 1>>
    /\ last.op = "PushBack" /\ last.outcome = "ok"
    /\ Before("a").capacity = 2 /\ vec["a"].capacity = 4

\* C12: a successful insert(p, x) / emplace(p, x) leaves e[0..p), x,
\* e[p..size), all live, whether it reallocated or not.  In the path without
\* reallocation no step is undefined, the array keeps its block, the only
\* slot constructed into is the uninitialized tail slot [size] (once), and
\* every assignment goes to a slot of [0, size), which is live.
C12_InsertPlacement ==
    (last.op \in {"Insert", "Emplace"} /\ last.outcome = "ok") =>
        LET v == last.v
            d == Before(v)
        IN /\ vec[v].size = d.size + 1
           /\ Len(ElementsNow(v)) = d.size + 1
           /\ AllLive(ElementsNow(v))
           /\ ValuesOf(ElementsNow(v))
                 = InsertedAt(ValuesOf(ElementsBefore(v)), last.p, last.x)
           /\ d.capacity > d.size =>
                 /\ last.ub = 0
                 /\ vec[v].buffer = d.buffer /\ vec[v].capacity = d.capacity
                 /\ \A k \in DOMAIN last.trace :
                       LET e == last.trace[k] IN
                       /\ e[1] \in Constructions /\ e[2] # Null =>
                             e[2] = d.buffer /\ e[3] = d.size
                       /\ e[1] \in {"assign_copy", "assign_move"} =>
                             e[2] = d.buffer /\ e[3] < d.size
                 /\ Count(Constructions, d.buffer, d.size) = 1

\* C12 witness: an insert at the front of two elements with spare capacity,
\* so that the tail slot is constructed and both live slots are assigned.
C12_Witness ==
    /\ last.op = "Insert" /\ last.outcome = "ok" /\ ~Reallocating
    /\ Before(last.v).size = 2 /\ last.p = 0
    /\ ValuesOf(ElementsBefore(last.v)) = <<1, 0>> /\ last.x = 1
    /\ Count({"assign_move"}, vec[last.v].buffer, 0) = 1
    /\ Count({"assign_move"}, vec[last.v].buffer, 1) = 1

\* C13: on a non-empty array and p in [0, size), erase(p) takes one off the
\* size, keeps the block and the capacity, removes the element at p and
\* keeps the others in order; the one slot it destroys is the old last slot
\* [size - 1], destroyed once while live.  Erasing the last position ends in
\* the state pop_back ends in.
C13_Erase ==
    (last.op = "Erase" /\ Before(last.v).size > 0) =>
        LET v == last.v
            d == Before(v)
        IN /\ last.outcome = "ok" /\ last.ub = 0
           /\ vec[v] = [d EXCEPT !.size = d.size - 1]
           /\ Len(ElementsNow(v)) = d.size - 1
           /\ AllLive(ElementsNow(v))
           /\ ValuesOf(ElementsNow(v)) = RemovedAt(ValuesOf(ElementsBefore(v)), last.p)
           /\ \A k \in DOMAIN last.trace :
                 last.trace[k][1] \in Destructions =>
                    last.trace[k] = <<"destroy", d.buffer, d.size - 1>>
           /\ Count({"destroy"}, d.buffer, d.size - 1) = 1
           /\ last.p = d.size - 1 =>
                 LET m == PopBack(Start(last.pre.heap, last.pre.vec), v) IN
                 /\ m.heap = heap
                 /\ m.vec = vec

\* C13 witness: the first of three elements erased, the other two differing.
C13_Witness ==
    /\ last.op = "Erase" /\ last.p = 0
    /\ ValuesOf(ElementsBefore(last.v)) = <<0, 1, 0>>
    /\ Before(last.v).capacity = 4

\* C14: a resize(n) that returns, with n < size, destroys exactly the slots
\* [n, size), each once, keeps [0, n), the block and the capacity, and ends
\* with size n; with n > size it default-constructs exactly the slots
\* [old size, n), each once, keeps the values of [0, old size) in order and
\* ends with size n and capacity >= n.
C14_Resize ==
    (last.op = "Resize" /\ last.outcome = "ok") =>
        LET v == last.v
            d == Before(v)
            n == last.p
            b == vec[v].buffer
            old == ValuesOf(ElementsBefore(v))
            new == ValuesOf(ElementsNow(v))
        IN /\ last.ub = 0
           /\ vec[v].size = n /\ Len(new) = n
           /\ AllLive(ElementsNow(v))
           /\ n < d.size =>
                 /\ vec[v] = [d EXCEPT !.size = n]
                 /\ new = SubSeq(old, 1, n)
                 /\ \A i \in 0..(d.capacity - 1) :
                       Count(Destructions, d.buffer, i)
                          = (IF n <= i /\ i < d.size THEN 1 ELSE 0)
                 /\ \A k \in DOMAIN last.trace :
                       last.trace[k][1] \in Constructions \cup {"alloc", "release"} => FALSE
           /\ n > d.size =>
                 /\ vec[v].capacity >= n
                 /\ SubSeq(new, 1, d.size) = old
                 /\ \A i \in (d.size + 1)..n : new[i] = DefaultValue
                 /\ \A i \in 0..(vec[v].capacity - 1) :
                       Count({"default"}, b, i)
                          = (IF d.size <= i /\ i < n THEN 1 ELSE 0)
                 /\ \A k \in DOMAIN last.trace :
                       last.trace[k][1] = "default" => last.trace[k][2] = b

\* C14 witness: a resize from one element in a full block to three, which
\* reallocates, transfers the element and default-constructs two.
C14_Witness ==
    /\ last.op = "Resize" /\ last.outcome = "ok" /\ last.p = 3
    /\ Before(last.v).capacity = 1
    /\ ValuesOf(ElementsBefore(last.v)) = <<1>>
    /\ ValuesOf(ElementsNow(last.v)) = <<1, 0, 0>>

\* C15: reserve(n) with n <= capacity changes nothing: no event, the same
\* block, capacity, size and elements.  A reserve(n) with n > capacity that
\* returns leaves capacity exactly n in a new block, the size and the values
\* as they were, and has destroyed every element of the old storage, each
\* once, before the old block was released (released with nothing alive in
\* it).
C15_Reserve ==
    last.op = "Reserve" =>
        LET v == last.v
            d == Before(v)
            n == last.p
        IN /\ n <= d.capacity =>
                 /\ last.outcome = "ok" /\ last.trace = << >>
                 /\ heap = last.pre.heap /\ vec = last.pre.vec
           /\ (n > d.capacity /\ last.outcome = "ok") =>
                 /\ last.ub = 0 /\ last.leak = 0
                 /\ vec[v] = [d EXCEPT !.capacity = n, !.buffer = NewArena]
                 /\ NewArena # d.buffer
                 /\ Len(heap[NewArena].slots) = n
                 /\ AllLive(ElementsNow(v))
                 /\ ValuesOf(ElementsNow(v)) = ValuesOf(ElementsBefore(v))
                 /\ \A i \in 0..(d.size - 1) : Count(Destructions, d.buffer, i) = 1
                 /\ d.buffer # Null =>
                       /\ ~heap[d.buffer].alloc
                       /\ \E j \in DOMAIN last.trace :
                             /\ last.trace[j] = <<"release", d.buffer, 0>>
                             /\ \A k \in DOMAIN last.trace :
                                   (last.trace[k][1] \in Destructions
                                      /\ last.trace[k][2] = d.buffer) => k < j

\* C15 witness: a reserve(4) on two different elements in a block of two.
C15_Witness ==
    /\ last.op = "Reserve" /\ last.outcome = "ok" /\ last.p = 4
    /\ Before(last.v).capacity = 2
    /\ ValuesOf(ElementsBefore(last.v)) = <<0, 1>>
    /\ Count({"release"}, Before(last.v).buffer, 0) = 1

\* C16: if an element construction fails during a reserve(n) or resize(n)
\* with n > capacity (while transferring the existing elements or while
\* default-constructing the new trailing ones), the array still owns the same
\* block with the same capacity, size and live elements as before the call,
\* and nothing was leaked.
C16_GrowthStrongSafety ==
    (/\ last.op \in {"Reserve", "Resize"}
     /\ last.p > Before(last.v).capacity
     /\ last.outcome = "threw") =>
        /\ Untouched(last.v)
        /\ last.leak = 0

\* The events of the last call that transfer an existing element into the
\* new block: the constructions there after the new element's own.
Transfers ==
    {k \in DOMAIN last.trace :
        /\ k > 2
        /\ last.trace[k][1] \in {"copy", "move"}
        /\ last.trace[k][2] = NewArena}

\* C17: in a push_back, emplace_back, insert or emplace that reallocates,
\* the first thing done after the allocation is the construction of the new
\* element at its offset of the new block, so before any existing element
\* is read; an original is destroyed, and the blocks are swapped, only when
\* all size transfers have succeeded and no constructor has thrown; every
\* original is destroyed before the swap; and the size is set after the
\* swap only.
C17_ReallocationOrder ==
    Reallocating =>
        LET tr == last.trace
            d == Before(last.v)
            OfOld(k) == tr[k][1] \in Destructions /\ tr[k][2] = d.buffer
        IN /\ Len(tr) >= 2
           /\ tr[1][1] = "alloc"
           /\ tr[2][1] \in {last.how, "throw"}
           /\ tr[2][2] = NewArena /\ tr[2][3] = last.p
           /\ \A k \in DOMAIN tr :
                 (OfOld(k) \/ tr[k][1] = "swap") =>
                    /\ Cardinality({j \in Transfers : j < k}) = d.size
                    /\ \A j \in DOMAIN tr : tr[j][1] # "throw"
           /\ \A j \in DOMAIN tr :
                 tr[j][1] = "swap" =>
                    /\ \A k \in DOMAIN tr : OfOld(k) => k < j
                    /\ \A i \in 0..(d.size - 1) : Count({"destroy"}, d.buffer, i) = 1
           /\ \A k \in DOMAIN tr :
                 tr[k][1] = "size" =>
                    /\ tr[k][3] = d.size + 1
                    /\ \E j \in DOMAIN tr : tr[j][1] = "swap" /\ j < k

\* C17 witness: a reallocating insert in the middle of two elements that
\* returns: allocation, the new element at offset 1, two transfers, two
\* destructions, the swap, the release and the size.
C17_Witness ==
    /\ Reallocating /\ last.op = "Insert" /\ last.outcome = "ok"
    /\ Before(last.v).size = 2 /\ last.p = 1
    /\ Cardinality(Transfers) = 2
    /\ Len(last.trace) = 9

\* The last call reallocated: a reserve or resize beyond the capacity, or an
\* insertion that found the capacity exhausted.
Reallocation ==
    \/ Reallocating
    \/ last.op \in {"Reserve", "Resize"} /\ last.p > Before(last.v).capacity

\* The events of the last call that transfer an existing element into the
\* new block, in any reallocation (an insertion constructs the new element
\* first, which is no transfer).
Transferred ==
    {k \in DOMAIN last.trace :
        /\ k > (IF last.op \in InsertionOps THEN 2 ELSE 1)
        /\ last.trace[k][1] \in {"copy", "move"}
        /\ last.trace[k][2] = NewArena}

\* No element of v is left moved-from by the last call: the live elements
\* of the block v had are those before the call.
NoneMovedFrom(v) ==
    Elements(heap, Before(v)) = ElementsBefore(v)

\* The last call failed before it swapped the new block in: in the
\* construction of the new element or in the middle of the transfer.
FailedInTransfer ==
    /\ last.outcome = "threw"
    /\ \A k \in DOMAIN last.trace : last.trace[k][1] # "swap"

\* C18 (as stated): in every reallocation the existing elements are
\* transferred by move only when T's move constructor is declared
\* non-throwing and by copy in every other case, and a reallocation that
\* fails leaves no original element moved-from, whatever the capabilities
\* of T.
C18_MoveOnlyWhenNothrow ==
    Reallocation =>
        /\ \A k \in Transferred :
              last.trace[k][1] = (IF traits.nothrowMove THEN "move" ELSE "copy")
        /\ FailedInTransfer => NoneMovedFrom(last.v)

\* C18 (amended): the elements are transferred by move when T's move
\* constructor is declared non-throwing or T is not copy-constructible, and
\* by copy otherwise; a reallocation that fails leaves no original element
\* moved-from when T is copy-constructible or its move cannot throw.
C18_MoveUnlessThrowingAndCopyable ==
    Reallocation =>
        /\ \A k \in Transferred :
              last.trace[k][1] = (IF traits.nothrowMove \/ ~traits.copyable
                                  THEN "move" ELSE "copy")
        /\ (FailedInTransfer /\ (traits.copyable \/ traits.nothrowMove)) =>
              NoneMovedFrom(last.v)

\* C18 witness: a reserve on two elements of a copyable type with a
\* throwing move fails on the second copy; the first element, already
\* copied, is still there.
C18_Witness ==
    /\ last.op = "Reserve" /\ last.outcome = "threw" /\ last.K = 2
    /\ traits = [nothrowMove |-> FALSE, copyable |-> TRUE]
    /\ ValuesOf(ElementsBefore(last.v)) = <<1, 1>>
    /\ last.trace[2][1] = "copy"

\* How many live RawMemory objects hold block b.
Owners(b) ==
    Cardinality({x \in ArenaNames : arenas.obj[x].alive /\ arenas.obj[x].buffer = b})

\* C19: after any sequence of RawMemory operations (construction, move
\* construction, move assignment into an empty or non-empty object or into
\* itself, swap, destruction) no block has been released twice, every
\* allocated block is the block of exactly one live object (none of two,
\* none of no one), every live object holds no block or an allocated one of
\* its capacity, and after a move from another object the source has
\* capacity 0 and no block and the destination has the source's prior block
\* and capacity.  Stated on the runs of SpecArena.
C19_ExclusiveOwnership ==
    /\ arenas.twice = 0
    /\ \A b \in Blocks : heap[b].alloc => Owners(b) = 1
    /\ \A x \in ArenaNames :
          LET a == arenas.obj[x] IN
          /\ (a.alive /\ a.buffer # Null) =>
                 heap[a.buffer].alloc /\ Len(heap[a.buffer].slots) = a.capacity
          /\ (a.alive /\ a.buffer = Null) => a.capacity = 0
    /\ (arenas.op \in {"RawMemoryMove", "MoveAssign"} /\ arenas.x # arenas.y) =>
          /\ arenas.obj[arenas.y] = [alive |-> TRUE, buffer |-> Null, capacity |-> 0]
          /\ arenas.obj[arenas.x].buffer = arenas.pre[arenas.y].buffer
          /\ arenas.obj[arenas.x].capacity = arenas.pre[arenas.y].capacity

\* C20: when the argument of a push_back, insert or emplace that returns is
\* a reference to the element at offset i of the array itself, the inserted
\* element has the value v[i] had before the call and the other elements
\* keep their values and order, with spare capacity and with reallocation,
\* for every i and p; no step of the call is undefined.  Stated on the runs
\* of SpecAlias.
C20_SelfReference ==
    (last.arg.self /\ last.outcome = "ok") =>
        LET v == last.v
            old == ValuesOf(ElementsBefore(v))
        IN /\ last.ub = 0
           /\ vec[v].size = Before(v).size + 1
           /\ Len(ElementsNow(v)) = Before(v).size + 1
           /\ AllLive(ElementsNow(v))
           /\ ValuesOf(ElementsNow(v)) = InsertedAt(old, last.p, old[last.arg.at + 1])

\* C20 witness: v.Insert(v.begin(), v[1]) on <<0, 1>> with spare capacity:
\* v[1] is shifted, and v[0] moved from, before the new value is assigned.
C20_Witness ==
    /\ last.op = "Insert" /\ last.arg = Element(1) /\ last.outcome = "ok"
    /\ last.p = 0 /\ ~Reallocating
    /\ ValuesOf(ElementsBefore(last.v)) = <<0, 1>>
    /\ ValuesOf(ElementsNow(last.v)) = <<1, 0, 1>>

====
